---- MODULE Spec2Model ----
(***************************************************************************)
(* Distributed-training bootstrap of pytorch_lightning/accelerators:       *)
(* DDPBackend (one process per device) and DDP2Backend (one process per    *)
(* node).  One backend object is followed through setup(), train() and     *)
(* ddp_train(); the early-stop vote is followed across the processes of a  *)
(* process group.                                                          *)
(*                                                                         *)
(* Python strings that the code parses or rewrites (environment values,    *)
(* checkpoint paths) are sequences of one-character strings.  The Python   *)
(* value None of an optional string is the one-element sequence NoneStr,   *)
(* of an optional integer the number NoIdx.                                *)
(***************************************************************************)
EXTENDS Integers, Sequences, FiniteSets, TLC

\* ------------------------------------------------------------------ bounds
MaxNodes == 2
MaxProcs == 3
MaxCalls == 3
MaxWorld == 3

\* ----------------------------------------------------------- Python values
NoneStr == <<"None">>
NoIdx == 0 - 1

Digits == {"0", "1", "2", "3", "4", "5", "6", "7", "8", "9"}

DigitVal(c) ==
    CASE c = "0" -> 0 [] c = "1" -> 1 [] c = "2" -> 2 [] c = "3" -> 3
      [] c = "4" -> 4 [] c = "5" -> 5 [] c = "6" -> 6 [] c = "7" -> 7
      [] c = "8" -> 8 [] c = "9" -> 9

DigitChar(d) ==
    CASE d = 0 -> "0" [] d = 1 -> "1" [] d = 2 -> "2" [] d = 3 -> "3"
      [] d = 4 -> "4" [] d = 5 -> "5" [] d = 6 -> "6" [] d = 7 -> "7"
      [] d = 8 -> "8" [] d = 9 -> "9"

\* int(s) succeeds on a non-empty string of decimal digits
IsNumeric(s) == Len(s) > 0 /\ \A i \in 1..Len(s) : s[i] \in Digits

RECURSIVE PyInt(_)
PyInt(s) ==
    IF Len(s) = 0 THEN 0
    ELSE 10 * PyInt(SubSeq(s, 1, Len(s) - 1)) + DigitVal(s[Len(s)])

\* f'{n}' of a non-negative integer
RECURSIVE PyStr(_)
PyStr(n) ==
    IF n < 10 THEN <<DigitChar(n)>>
    ELSE PyStr(n \div 10) \o <<DigitChar(n % 10)>>

\* s.split(','): the fields between the commas, the empty ones included
RECURSIVE PySplit(_)
PySplit(s) ==
    IF \A i \in 1..Len(s) : s[i] # ","
    THEN <<s>>
    ELSE LET k == CHOOSE i \in 1..Len(s) :
                      s[i] = "," /\ \A j \in 1..(i - 1) : s[j] # ","
         IN  <<SubSeq(s, 1, k - 1)>> \o PySplit(SubSeq(s, k + 1, Len(s)))

PyMax(a, b) == IF a >= b THEN a ELSE b

\* os.environ: a function from the names that are set to their values
EnvGet(env, k, default) == IF k \in DOMAIN env THEN env[k] ELSE default

EnvSet(env, k, v) ==
    [x \in (DOMAIN env) \cup {k} |-> IF x = k THEN v ELSE env[x]]

EnvDel(env, k) == [x \in (DOMAIN env) \ {k} |-> env[x]]

\* re.sub('.ckpt', '.tmp_end.ckpt', s): left to right, every non-overlapping
\* match of <any character but newline> c k p t is replaced
TmpEndCkpt == <<".", "t", "m", "p", "_", "e", "n", "d", ".", "c", "k", "p", "t">>

MatchesCkptAt(s, i) ==
    /\ i + 4 <= Len(s)
    /\ s[i] # "\n"
    /\ SubSeq(s, i + 1, i + 4) = <<"c", "k", "p", "t">>

RECURSIVE ReSubCkpt(_)
ReSubCkpt(s) ==
    IF Len(s) = 0 THEN <<>>
    ELSE IF MatchesCkptAt(s, 1)
         THEN TmpEndCkpt \o ReSubCkpt(SubSeq(s, 6, Len(s)))
         ELSE <<s[1]>> \o ReSubCkpt(SubSeq(s, 2, Len(s)))

\* str.lower() of the trainer's distributed_backend name
PyLower(name) ==
    CASE name = "DDP_SPAWN" -> "ddp_spawn"
      [] name = "DDP" -> "ddp"
      [] OTHER -> name

\* ------------------------------------------------------------------- state
VARIABLES
    cls,                    \* which class the backend object is: "ddp" | "ddp2"
    mode,                   \* DDPBackend.mode
    task_idx,               \* self.task_idx (NoIdx: None)
    has_spawned_children,   \* self._has_spawned_children
    environ,                \* os.environ of this process
    argv,                   \* sys.argv of this process
    trainer,                \* the fields of self.trainer the backends use
    pc,                     \* where the process is
    frame,                  \* arguments and locals of the running ddp_train
    mp_queue,               \* the messages put on the channel, oldest first
    files,                  \* checkpoint paths atomic_save has written
    popen_count,            \* subprocess.Popen calls made so far
    err,                    \* the exception that ended the last call
    calls,                  \* setup()/train() calls made so far
    steps,                  \* hooks the running ddp_train has invoked, in order
    hydra,                  \* "none" | "available" | "initialized" (HYDRA_AVAILABLE, HydraConfig)
    spawn_rank,             \* local_rank of the script-mode launch loop
    last_call,              \* the method called last: "setup" | "train" | "ddp_train"
    vpc,                    \* vote: each process's position
    should_stop,            \* vote: each process's trainer.should_stop
    stop,                   \* vote: each process's reduced tensor
    ret,                    \* vote: each process's return value
    group_size,             \* vote: world size of the process group
    job,                    \* job: the configuration every process of a job shares
    workers                 \* job: the state of each process, by <<node, local index>>

backendVars ==
    <<cls, mode, task_idx, has_spawned_children, environ, argv, trainer, pc,
      frame, mp_queue, files, popen_count, err, calls, steps, hydra, spawn_rank,
      last_call>>

voteVars == <<vpc, should_stop, stop, ret, group_size>>

jobVars == <<job, workers>>

vars == <<backendVars, voteVars, jobVars>>

\* ------------------------------------------------------------------ inputs
\* values of CUDA_VISIBLE_DEVICES the launcher may have set
CudaValues ==
    { <<>>, <<"0">>, <<"2", ",", "5">>, <<"1", "0">>, <<"0", ",", "1", ",", "2">> }

LocalIdValues == { <<"0">>, <<"1">> }

MasterAddr == <<"1", "0", ".", "0", ".", "0", ".", "1">>
MasterPort == <<"2", "9", "5", "0", "0">>
LocalHost == <<"1", "2", "7", ".", "0", ".", "0", ".", "1">>
FreePorts == { <<"1", "2", "9", "1", "0">> }

\* every function from a subset of the names in `choice` to one of its values
EnvsOver(choice) ==
    UNION { [D -> UNION { choice[k] : k \in D }] : D \in SUBSET (DOMAIN choice) }

EnvsOf(choice) ==
    { e \in EnvsOver(choice) : \A k \in DOMAIN e : e[k] \in choice[k] }

\* environments of a script-mode launch, of a scheduler-managed task and of
\* an elastic-launcher task
ScriptEnvs ==
    { e \in EnvsOf([CUDA_VISIBLE_DEVICES |-> CudaValues,
                    NODE_RANK |-> { <<"1">> },
                    GROUP_RANK |-> { <<"0">> },
                    MASTER_ADDR |-> { MasterAddr },
                    MASTER_PORT |-> { MasterPort }]) :
        ("MASTER_ADDR" \in DOMAIN e) = ("MASTER_PORT" \in DOMAIN e) }

SlurmEnvs ==
    EnvsOf([SLURM_LOCALID |-> LocalIdValues,
            CUDA_VISIBLE_DEVICES |-> { <<"2", ",", "5">> }])

ElasticEnvs ==
    EnvsOf([LOCAL_RANK |-> LocalIdValues,
            CUDA_VISIBLE_DEVICES |-> { <<"2", ",", "5">> }])

DistributedBackends == {"ddp", "ddp2", "ddp_spawn", "ddp_cpu", "tpu", "DDP_SPAWN"}

SpawnFamily == {"ddp_spawn", "ddp_cpu", "tpu"}

\* checkpoint_callback.best_model_path values (NoneStr: the path is None)
BestPaths ==
    { NoneStr, <<>>,
      <<"e", ".", "c", "k", "p", "t">>,
      <<"_", "c", "k", "p", "t", "/", "e", ".", "c", "k", "p", "t">> }

Results == <<"results">>

Argv0 == <<"train.py", "--gpus", "2">>
PythonExe == "/usr/bin/python"

\* os.path.abspath / hydra's to_absolute_path of the script path
AbsPath(p) == IF p = "train.py" THEN "/work/train.py" ELSE p
HydraAbsPath(p) == IF p = "train.py" THEN "/launch/train.py" ELSE p

NoFrame ==
    [process_idx |-> NoIdx, is_master |-> FALSE, has_queue |-> FALSE,
     via_train |-> FALSE, joined |-> FALSE,
     join_args |-> [rank |-> 0, world_size |-> 0, slurm |-> FALSE],
     on_gpu |-> FALSE, testing |-> FALSE,
     best_model_path |-> NoneStr, last_path |-> NoneStr]

InitTrainer(nn, nr, np, slurm, pbar, db) ==
    [node_rank |-> nr, num_nodes |-> nn, num_processes |-> np,
     is_slurm_managing_tasks |-> slurm,
     global_rank |-> 0, local_rank |-> 0, world_size |-> 1,
     root_gpu |-> NoIdx, interactive_ddp_procs |-> <<>>,
     model_set |-> FALSE, progress_bar |-> pbar,
     distributed_backend |-> db, rank_zero_rank |-> 0]

VoteIdle ==
    /\ vpc = <<>>
    /\ should_stop = <<>>
    /\ stop = <<>>
    /\ ret = <<>>
    /\ group_size = 0

\* no job is modelled
JobIdle ==
    /\ job = <<>>
    /\ workers = <<>>

\* what __init__ leaves in the backend object, and a process that has not
\* called anything yet
Fresh ==
    /\ task_idx = NoIdx
    /\ has_spawned_children = FALSE
    /\ argv = Argv0
    /\ pc = "idle"
    /\ frame = NoFrame
    /\ mp_queue = <<>>
    /\ files = {}
    /\ popen_count = 0
    /\ err = "none"
    /\ calls = 0
    /\ steps = <<>>
    /\ spawn_rank = 0
    /\ last_call = "none"

\* DDPBackend.__init__ / DDP2Backend.__init__ in the process that runs the
\* training script: the script-mode launcher, a scheduler task, an elastic task.
\* The trainer handed to a script-mode backend is new (global rank 0) or has
\* run ddp_train under an earlier backend and kept the rank it got there.
Init ==
    /\ \E c \in {<<"ddp", "ddp">>, <<"ddp", "slurm_ddp">>,
                 <<"ddp", "torchelastic_ddp">>, <<"ddp2", "ddp2">>} :
          /\ cls = c[1]
          /\ mode = c[2]
          /\ hydra \in (IF c[2] = "ddp" THEN {"none", "available", "initialized"}
                                      ELSE {"none"})
          /\ environ \in (CASE c[2] = "ddp" -> ScriptEnvs
                            [] c[2] = "slurm_ddp" -> SlurmEnvs
                            [] c[2] = "torchelastic_ddp" -> ElasticEnvs
                            [] OTHER -> SlurmEnvs \cup ElasticEnvs)
          /\ \E nn \in 1..MaxNodes, np \in 1..MaxProcs, pbar \in {"none", "enabled"} :
             \E nr \in 0..(nn - 1), slurm \in BOOLEAN :
                /\ (c[2] = "slurm_ddp") => slurm
                /\ (c[2] \in {"ddp", "torchelastic_ddp"}) => ~slurm
                /\ \E gr \in (IF c[2] = "ddp" THEN {0, nr * np} ELSE {0}) :
                      trainer = [InitTrainer(nn, nr, np, slurm, pbar, c[1])
                                    EXCEPT !.global_rank = gr]
    /\ Fresh
    /\ VoteIdle
    /\ JobIdle

\* __init__ in a worker process whose target is ddp_train (the spawn family
\* hands it the result channel); any distributed_backend name may be set
WorkerInit ==
    /\ cls \in {"ddp", "ddp2"}
    /\ mode = "worker"
    /\ hydra = "none"
    /\ environ \in EnvsOf([CUDA_VISIBLE_DEVICES |-> CudaValues])
    /\ \E nn \in 1..MaxNodes, np \in 1..MaxProcs, db \in DistributedBackends :
       \E nr \in 0..(nn - 1) :
          trainer = InitTrainer(nn, nr, np, FALSE, "enabled", db)
    /\ Fresh
    /\ VoteIdle
    /\ JobIdle

\* ------------------------------------------------------------------ setup()
\* a call that ends by raising `e`: the exception reaches the caller
Raise(e) ==
    /\ err' = e
    /\ pc' = "idle"

\* DDPBackend.__slurm_setup, then trainer.model = model
SlurmSetup ==
    /\ pc = "idle" /\ calls < MaxCalls
    /\ last_call' = "setup"
    /\ cls = "ddp" /\ mode = "slurm_ddp"
    /\ calls' = calls + 1
    /\ IF "SLURM_LOCALID" \notin DOMAIN environ
       THEN Raise("KeyError") /\ UNCHANGED <<task_idx, trainer>>
       ELSE IF ~IsNumeric(environ["SLURM_LOCALID"])
       THEN Raise("ValueError") /\ UNCHANGED <<task_idx, trainer>>
       ELSE /\ task_idx' = PyInt(environ["SLURM_LOCALID"])
            /\ trainer' = [trainer EXCEPT !.model_set = TRUE]
            /\ err' = "none"
            /\ pc' = "idle"
    /\ UNCHANGED <<cls, mode, has_spawned_children, environ, argv, frame, mp_queue,
                   files, popen_count, steps, hydra, spawn_rank, voteVars, jobVars>>

\* DDPBackend.__torchelastic_setup, then trainer.model = model
TorchElasticSetup ==
    /\ pc = "idle" /\ calls < MaxCalls
    /\ last_call' = "setup"
    /\ cls = "ddp" /\ mode = "torchelastic_ddp"
    /\ calls' = calls + 1
    /\ IF "LOCAL_RANK" \notin DOMAIN environ
       THEN Raise("KeyError") /\ UNCHANGED <<task_idx, trainer>>
       ELSE IF ~IsNumeric(environ["LOCAL_RANK"])
       THEN Raise("ValueError") /\ UNCHANGED <<task_idx, trainer>>
       ELSE /\ task_idx' = PyInt(environ["LOCAL_RANK"])
            /\ trainer' = [trainer EXCEPT !.model_set = TRUE]
            /\ err' = "none"
            /\ pc' = "idle"
    /\ UNCHANGED <<cls, mode, has_spawned_children, environ, argv, frame, mp_queue,
                   files, popen_count, steps, hydra, spawn_rank, voteVars, jobVars>>

\* DDP2Backend.setup: _resolve_task_idx, then trainer.model = model
DDP2Setup ==
    /\ pc = "idle" /\ calls < MaxCalls
    /\ last_call' = "setup"
    /\ cls = "ddp2"
    /\ calls' = calls + 1
    /\ LET name == IF trainer.is_slurm_managing_tasks
                   THEN "SLURM_LOCALID" ELSE "LOCAL_RANK"
           ok == name \in DOMAIN environ /\ IsNumeric(environ[name])
       IN  IF ok
           THEN /\ task_idx' = PyInt(environ[name])
                /\ trainer' = [trainer EXCEPT !.model_set = TRUE]
                /\ err' = "none"
                /\ pc' = "idle"
           ELSE /\ Raise(IF ~trainer.is_slurm_managing_tasks
                         THEN "MisconfigurationException"
                         ELSE IF name \in DOMAIN environ THEN "ValueError"
                         ELSE "KeyError")
                /\ UNCHANGED <<task_idx, trainer>>
    /\ UNCHANGED <<cls, mode, has_spawned_children, environ, argv, frame, mp_queue,
                   files, popen_count, steps, hydra, spawn_rank, voteVars, jobVars>>

\* DDPBackend._check_can_spawn_children: TRUE when it raises
CheckCanSpawnChildrenRaises(spawned) == spawned

\* the node rank script-mode setup exports
NodeRankOf(env) ==
    EnvGet(env, "GROUP_RANK", EnvGet(env, "NODE_RANK", <<"0">>))

\* gpu_ids as forwarded in PL_TRAINER_GPUS
GpuIds(env) ==
    LET g == EnvGet(env, "CUDA_VISIBLE_DEVICES", <<>>)
    IN  IF Len(g) = 1 THEN g \o <<",">> ELSE g

NumGpus(env) == PyMax(1, Len(PySplit(GpuIds(env))))

WorldSizeExport(env, num_nodes) == PyStr(NumGpus(env) * num_nodes)

\* the environment after lines 78-115 of script-mode setup
ScriptModeEnv(env, port, num_nodes) ==
    LET e1 == EnvSet(env, "MASTER_ADDR", EnvGet(env, "MASTER_ADDR", LocalHost))
        e2 == EnvSet(e1, "MASTER_PORT", EnvGet(e1, "MASTER_PORT", port))
        e3 == EnvSet(e2, "NODE_RANK", NodeRankOf(e2))
        e4 == EnvSet(e3, "LOCAL_RANK", <<"0">>)
        e5 == EnvSet(e4, "PL_TRAINER_GPUS", GpuIds(e4))
    IN  EnvSet(e5, "WORLD_SIZE", WorldSizeExport(e5, num_nodes))

\* command[0] = full_path, on the list object that is sys.argv; hydra's
\* to_absolute_path raises before hydra is initialized, and abspath steps in
ResolvedArgv(a, h) ==
    [a EXCEPT ![1] = IF h = "initialized" THEN HydraAbsPath(a[1]) ELSE AbsPath(a[1])]

\* the command line the children run
Command(a) == <<PythonExe>> \o a

\* the assertion compiled away
AssertionSkipped(global_rank) == FALSE

\* line 74: assert self.trainer.global_rank == 0
AssertionFails(global_rank) == global_rank # 0

\* DDPBackend.__ddp_script_mode_setup up to the launch loop
ScriptModeSetupBegin ==
    /\ pc = "idle" /\ calls < MaxCalls
    /\ last_call' = "setup"
    /\ cls = "ddp" /\ mode = "ddp"
    /\ calls' = calls + 1
    /\ IF AssertionFails(trainer.global_rank)
       THEN /\ Raise("AssertionError")
            /\ UNCHANGED <<has_spawned_children, environ, argv, trainer, spawn_rank>>
       ELSE IF CheckCanSpawnChildrenRaises(has_spawned_children)
       THEN /\ Raise("RuntimeError")
            /\ UNCHANGED <<has_spawned_children, environ, argv, trainer, spawn_rank>>
       ELSE \E port \in FreePorts :
            /\ has_spawned_children' = TRUE
            /\ environ' = ScriptModeEnv(environ, port, trainer.num_nodes)
            /\ argv' = ResolvedArgv(argv, hydra)
            /\ trainer' = [trainer EXCEPT !.interactive_ddp_procs = <<>>]
            /\ spawn_rank' = 1
            /\ err' = "none"
            /\ pc' = "spawn"
    /\ UNCHANGED <<cls, mode, task_idx, frame, mp_queue, files, popen_count,
                   steps, hydra, voteVars, jobVars>>

\* a child environment without the local-rank override
ChildEnvInherited(env, local_rank) == env

\* the environment a child is launched with
ChildEnv(env, local_rank) == EnvSet(env, "LOCAL_RANK", PyStr(local_rank))

\* one turn of the launch loop: Popen, append the handle, sleep 1-5 s
SpawnChild ==
    /\ pc = "spawn"
    /\ UNCHANGED last_call
    /\ spawn_rank < trainer.num_processes
    /\ LET proc == [command |-> Command(argv),
                    env |-> ChildEnv(environ, spawn_rank),
                    cwd |-> IF hydra = "initialized" THEN "/launch" ELSE "None"]
       IN  trainer' = [trainer EXCEPT !.interactive_ddp_procs = Append(@, proc)]
    /\ popen_count' = popen_count + 1
    /\ spawn_rank' = spawn_rank + 1
    /\ UNCHANGED <<cls, mode, task_idx, has_spawned_children, environ, argv, pc,
                   frame, mp_queue, files, err, calls, steps, hydra, voteVars, jobVars>>

\* the loop is over: self.task_idx = 0, and setup's trainer.model = model
ScriptModeSetupEnd ==
    /\ pc = "spawn"
    /\ UNCHANGED last_call
    /\ spawn_rank >= trainer.num_processes
    /\ task_idx' = 0
    /\ trainer' = [trainer EXCEPT !.model_set = TRUE]
    /\ pc' = "idle"
    /\ UNCHANGED <<cls, mode, has_spawned_children, environ, argv, frame, mp_queue,
                   files, popen_count, err, calls, steps, hydra, spawn_rank, voteVars, jobVars>>

\* ------------------------------------------------------------- ddp_train()
\* an exception inside ddp_train ends the call: train()'s caller sees it, a
\* worker whose target is ddp_train exits
Abort(e, f, st) ==
    /\ err' = e
    /\ pc' = IF frame.via_train THEN "idle" ELSE "exited"
    /\ frame' = IF frame.via_train THEN NoFrame ELSE f
    /\ steps' = IF frame.via_train THEN <<>> ELSE st

\* progress reporting switched off by node rank alone
ProgressBarNodeOnly(bar, node_rank, process_idx) ==
    IF node_rank # 0 /\ bar # "none" THEN "disabled" ELSE bar

\* the progress bar after lines 164-166
ProgressBarAfter(bar, node_rank, process_idx) ==
    IF (node_rank # 0 \/ process_idx # 0) /\ bar # "none" THEN "disabled" ELSE bar

\* lines 169-171 of DDPBackend.ddp_train, lines 92-94 of DDP2Backend.ddp_train
LocalRankOf(c, node_rank, process_idx) ==
    IF c = "ddp" THEN process_idx ELSE node_rank

\* a global rank that adds the index to the node rank without the stride
GlobalRankNoStride(c, node_rank, num_processes, process_idx) ==
    IF c = "ddp" THEN node_rank + process_idx ELSE node_rank

\* a global rank that forgets the process's index on its node
GlobalRankNodeOnly(c, node_rank, num_processes, process_idx) ==
    IF c = "ddp" THEN node_rank * num_processes ELSE node_rank

GlobalRankOf(c, node_rank, num_processes, process_idx) ==
    IF c = "ddp" THEN node_rank * num_processes + process_idx ELSE node_rank

WorldSizeOf(c, num_nodes, num_processes) ==
    IF c = "ddp" THEN num_nodes * num_processes ELSE num_nodes

\* the join called with rank and world size in each other's place
JoinArgsSwapped(global_rank, world_size, is_slurm_managing_tasks) ==
    [rank |-> world_size, world_size |-> global_rank,
     slurm |-> is_slurm_managing_tasks]

\* lines 180-184: the arguments init_ddp_connection is called with
JoinArgs(global_rank, world_size, is_slurm_managing_tasks) ==
    [rank |-> global_rank, world_size |-> world_size,
     slurm |-> is_slurm_managing_tasks]

\* ddp_train from its entry to the return of init_ddp_connection
DdpTrainEnter(process_idx, is_master, has_queue, via_train) ==
       LET lr == LocalRankOf(cls, trainer.node_rank, process_idx)
           gr == GlobalRankOf(cls, trainer.node_rank, trainer.num_processes, process_idx)
           ws == WorldSizeOf(cls, trainer.num_nodes, trainer.num_processes)
       IN  /\ trainer' = [trainer EXCEPT
                  !.progress_bar = ProgressBarAfter(@, trainer.node_rank, process_idx),
                  !.local_rank = lr,
                  !.global_rank = gr,
                  !.world_size = ws,
                  !.rank_zero_rank = gr]
           /\ frame' = [NoFrame EXCEPT
                  !.process_idx = process_idx,
                  !.is_master = is_master,
                  !.has_queue = has_queue,
                  !.via_train = via_train,
                  !.joined = TRUE,
                  !.join_args = JoinArgs(gr, ws, trainer.is_slurm_managing_tasks)]
           /\ steps' = <<"init_ddp_connection">>
           /\ err' = "none"
           /\ pc' = "joined"

\* DDPBackend.train / DDP2Backend.train up to the return of the join
Train ==
    /\ pc = "idle" /\ calls < MaxCalls
    /\ last_call' = "train"
    /\ calls' = calls + 1
    /\ IF task_idx = NoIdx
       THEN /\ Raise("TypeError")
            /\ UNCHANGED <<trainer, frame, steps>>
       ELSE DdpTrainEnter(task_idx, cls = "ddp" /\ mode = "ddp", FALSE, TRUE)
    /\ UNCHANGED <<cls, mode, task_idx, has_spawned_children, environ, argv,
                   mp_queue, files, popen_count, hydra, spawn_rank, voteVars, jobVars>>

\* ddp_train as the target of a spawned worker: called once, with the
\* worker's index, the result channel (or None) and an optional offset
DdpTrainDirect ==
    /\ pc = "idle" /\ mode = "worker"
    /\ last_call' = "ddp_train"
    /\ \E idx \in 0..(trainer.num_processes - 1), off \in 0..1,
          is_master \in BOOLEAN, has_queue \in BOOLEAN :
          /\ idx + off < trainer.num_processes
          /\ DdpTrainEnter(idx + off, is_master, has_queue, FALSE)
    /\ UNCHANGED <<cls, mode, task_idx, has_spawned_children, environ, argv,
                   mp_queue, files, popen_count, calls, hydra, spawn_rank, voteVars, jobVars>>

\* lines 209-211: the master looks its device up in CUDA_VISIBLE_DEVICES;
\* "KeyError", "IndexError", "ValueError" when the lookup raises
MasterLookupError(env, local_rank) ==
    IF "CUDA_VISIBLE_DEVICES" \notin DOMAIN env THEN "KeyError"
    ELSE LET available_gpus == PySplit(env["CUDA_VISIBLE_DEVICES"])
         IN  IF local_rank + 1 > Len(available_gpus) THEN "IndexError"
             ELSE IF ~IsNumeric(available_gpus[local_rank + 1]) THEN "ValueError"
             ELSE "none"

MasterGpuIdx(env, local_rank) ==
    PyInt(PySplit(env["CUDA_VISIBLE_DEVICES"])[local_rank + 1])

\* lines 203-211: the device index a process binds
GpuIdx(env, process_idx, is_master, local_rank) ==
    IF is_master THEN MasterGpuIdx(env, local_rank) ELSE process_idx

\* the batch-norm wrapping done after the model is on its device
PlaceStepsSyncLast(c, sync_batchnorm, on_gpu) ==
    <<"call_setup_hook">>
    \o (IF on_gpu THEN <<"set_device", "model.cuda">> ELSE <<>>)
    \o (IF c = "ddp" /\ sync_batchnorm THEN <<"configure_sync_batchnorm">> ELSE <<>>)

\* lines 187-215 (DDP2 110-134): the steps from the setup hook to model.cuda
PlaceSteps(c, sync_batchnorm, on_gpu) ==
    <<"call_setup_hook">>
    \o (IF c = "ddp" /\ sync_batchnorm THEN <<"configure_sync_batchnorm">> ELSE <<>>)
    \o (IF on_gpu THEN <<"set_device", "model.cuda">> ELSE <<>>)

\* setup hook, sync batch norm (DDPBackend only), device binding
DdpTrainPlace ==
    /\ pc = "joined"
    /\ UNCHANGED last_call
    /\ \E sync_batchnorm \in BOOLEAN, on_gpu \in BOOLEAN :
       LET s1 == Append(steps, "call_setup_hook")
           s2 == IF cls = "ddp" /\ sync_batchnorm
                 THEN Append(s1, "configure_sync_batchnorm") ELSE s1
           lookup == IF on_gpu /\ frame.is_master
                     THEN MasterLookupError(environ, trainer.local_rank) ELSE "none"
           f == [frame EXCEPT !.on_gpu = on_gpu]
       IN  /\ IF lookup # "none"
              THEN /\ Abort(lookup, f, s2)
                   /\ UNCHANGED trainer
              ELSE /\ frame' = f
                   /\ trainer' = IF on_gpu
                         THEN [trainer EXCEPT !.root_gpu =
                                  GpuIdx(environ, frame.process_idx, frame.is_master,
                                         trainer.local_rank)]
                         ELSE trainer
                   /\ steps' = steps \o PlaceSteps(cls, sync_batchnorm, on_gpu)
                   /\ pc' = "placed"
                   /\ UNCHANGED err
    /\ UNCHANGED <<cls, mode, task_idx, has_spawned_children, environ, argv,
                   mp_queue, files, popen_count, calls, hydra, spawn_rank, voteVars, jobVars>>

\* optimizers, model properties, apex, configure_ddp, setup_training
DdpTrainConfigure ==
    /\ pc = "placed"
    /\ UNCHANGED last_call
    /\ \E apex \in BOOLEAN :
       LET s1 == steps \o <<"init_optimizers", "copy_trainer_model_properties">>
           s2 == IF apex THEN s1 \o <<"configure_apex", "reinit_scheduler_properties">>
                 ELSE s1
       IN  steps' = s2 \o <<"configure_ddp", "setup_training">>
    /\ pc' = "configured"
    /\ UNCHANGED <<cls, mode, task_idx, has_spawned_children, environ, argv, trainer,
                   frame, mp_queue, files, popen_count, err, calls, hydra, spawn_rank,
                   voteVars, jobVars>>

\* results = self.train_or_test(); model = self.trainer.get_model()
DdpTrainLoop ==
    /\ pc = "configured"
    /\ UNCHANGED last_call
    /\ steps' = steps \o <<"train_or_test", "get_model">>
    /\ pc' = "fitted"
    /\ UNCHANGED <<cls, mode, task_idx, has_spawned_children, environ, argv, trainer,
                   frame, mp_queue, files, popen_count, err, calls, hydra, spawn_rank,
                   voteVars, jobVars>>

\* ------------------------------------ transfer_distrib_spawn_state_on_fit_end
\* a test that takes every name starting with ddp for the spawn family
TransferReturnsEarlyPrefix(db) ==
    PyLower(db) \notin SpawnFamily \cup {"ddp", "ddp2"}

\* line 294: the early return for every backend outside the spawn family
TransferReturnsEarly(db) == PyLower(db) \notin SpawnFamily

\* line 302: only global rank 0, and only with a channel, runs the body
TransferRunsBody(global_rank, has_queue) == global_rank = 0 /\ has_queue

\* lines 294-302: the early return, the best path, the rank/channel test
TransferBegin ==
    /\ pc = "fitted"
    /\ UNCHANGED last_call
    /\ steps' = Append(steps, "transfer_distrib_spawn_state_on_fit_end")
    /\ IF TransferReturnsEarly(trainer.distributed_backend)
       THEN pc' = "transferred" /\ UNCHANGED frame
       ELSE \E has_callback \in BOOLEAN, best \in BestPaths :
            LET best_model_path == IF has_callback THEN best ELSE NoneStr
            IN  IF TransferRunsBody(trainer.global_rank, frame.has_queue)
                THEN /\ frame' = [frame EXCEPT !.best_model_path = best_model_path]
                     /\ pc' = "put_best"
                ELSE /\ pc' = "transferred"
                     /\ UNCHANGED frame
    /\ UNCHANGED <<cls, mode, task_idx, has_spawned_children, environ, argv, trainer,
                   mp_queue, files, popen_count, err, calls, hydra, spawn_rank,
                   voteVars, jobVars>>

\* mp_queue.put(best_model_path)
PutBest ==
    /\ pc = "put_best"
    /\ UNCHANGED last_call
    /\ mp_queue' = Append(mp_queue, frame.best_model_path)
    /\ pc' = "put_results"
    /\ UNCHANGED <<cls, mode, task_idx, has_spawned_children, environ, argv, trainer,
                   frame, files, popen_count, err, calls, steps, hydra, spawn_rank,
                   voteVars, jobVars>>

\* mp_queue.put(results)
PutResults ==
    /\ pc = "put_results"
    /\ UNCHANGED last_call
    /\ mp_queue' = Append(mp_queue, Results)
    /\ pc' = "save_last"
    /\ UNCHANGED <<cls, mode, task_idx, has_spawned_children, environ, argv, trainer,
                   frame, files, popen_count, err, calls, steps, hydra, spawn_rank,
                   voteVars, jobVars>>

\* a test that forgets the evaluation-only mode
SavesLastAlsoTesting(testing, best_model_path) ==
    best_model_path # NoneStr /\ Len(best_model_path) > 0

\* line 310: whether the last weights are saved
SavesLast(testing, best_model_path) ==
    ~testing /\ best_model_path # NoneStr /\ Len(best_model_path) > 0

\* line 311
LastPath(best_model_path) == ReSubCkpt(best_model_path)

\* lines 309-312: last_path, and atomic_save, which writes the whole file or
\* raises and writes nothing
SaveLast ==
    /\ pc = "save_last"
    /\ UNCHANGED last_call
    /\ \E testing \in BOOLEAN, saved \in BOOLEAN :
       IF SavesLast(testing, frame.best_model_path)
       THEN LET last_path == LastPath(frame.best_model_path)
                 f == [frame EXCEPT !.testing = testing, !.last_path = last_path]
            IN  IF saved
                THEN /\ frame' = f
                     /\ files' = files \cup {last_path}
                     /\ pc' = "put_last"
                     /\ UNCHANGED <<err, steps>>
                ELSE /\ Abort("OSError", f, steps)
                     /\ UNCHANGED files
       ELSE /\ saved
            /\ frame' = [frame EXCEPT !.testing = testing, !.last_path = NoneStr]
            /\ pc' = "put_last"
            /\ UNCHANGED <<files, err, steps>>
    /\ UNCHANGED <<cls, mode, task_idx, has_spawned_children, environ, argv, trainer,
                   mp_queue, popen_count, calls, hydra, spawn_rank, voteVars, jobVars>>

\* mp_queue.put(last_path)
PutLast ==
    /\ pc = "put_last"
    /\ UNCHANGED last_call
    /\ mp_queue' = Append(mp_queue, frame.last_path)
    /\ pc' = "transferred"
    /\ UNCHANGED <<cls, mode, task_idx, has_spawned_children, environ, argv, trainer,
                   frame, files, popen_count, err, calls, steps, hydra, spawn_rank,
                   voteVars, jobVars>>

\* torch.cuda.empty_cache()
DdpTrainCleanup ==
    /\ pc = "transferred"
    /\ UNCHANGED last_call
    /\ steps' = Append(steps, "empty_cache")
    /\ pc' = "cleaned"
    /\ UNCHANGED <<cls, mode, task_idx, has_spawned_children, environ, argv, trainer,
                   frame, mp_queue, files, popen_count, err, calls, hydra, spawn_rank,
                   voteVars, jobVars>>

\* the return of ddp_train; in train() of a script-mode DDPBackend then
\* del os.environ['WORLD_SIZE'].  A worker exits.
DdpTrainReturn ==
    /\ pc = "cleaned"
    /\ UNCHANGED last_call
    /\ IF frame.via_train
       THEN /\ frame' = NoFrame
            /\ steps' = <<>>
            /\ IF cls = "ddp" /\ mode = "ddp"
               THEN IF "WORLD_SIZE" \in DOMAIN environ
                    THEN /\ environ' = EnvDel(environ, "WORLD_SIZE")
                         /\ pc' = "idle"
                         /\ UNCHANGED err
                    ELSE /\ Raise("KeyError")
                         /\ UNCHANGED environ
               ELSE pc' = "idle" /\ UNCHANGED <<environ, err>>
       ELSE pc' = "exited" /\ UNCHANGED <<environ, err, frame, steps>>
    /\ UNCHANGED <<cls, mode, task_idx, has_spawned_children, argv, trainer,
                   mp_queue, files, popen_count, calls, hydra, spawn_rank, voteVars, jobVars>>

\* the process that runs the training script: setup() and train()
Next ==
    \/ SlurmSetup
    \/ TorchElasticSetup
    \/ DDP2Setup
    \/ ScriptModeSetupBegin
    \/ SpawnChild
    \/ ScriptModeSetupEnd
    \/ Train
    \/ DdpTrainPlace
    \/ DdpTrainConfigure
    \/ DdpTrainLoop
    \/ TransferBegin
    \/ DdpTrainCleanup
    \/ DdpTrainReturn

Spec == Init /\ [][Next]_vars

\* a worker process: one ddp_train call
WorkerNext ==
    \/ DdpTrainDirect
    \/ DdpTrainPlace
    \/ DdpTrainConfigure
    \/ DdpTrainLoop
    \/ TransferBegin
    \/ PutBest
    \/ PutResults
    \/ SaveLast
    \/ PutLast
    \/ DdpTrainCleanup
    \/ DdpTrainReturn

SpecWorker == WorkerInit /\ [][WorkerNext]_vars

\* ------------------------------------------------ early_stopping_should_stop
\* The processes 1..group_size of one process group; each either makes the
\* call or skips it.  all_reduce and barrier are collectives: a caller is
\* released once every process of the group has made the same call.

Members == 1..group_size

\* int(self.trainer.should_stop)
PyIntOfBool(b) == IF b THEN 1 ELSE 0

RECURSIVE FlagSum(_, _)
FlagSum(flags, n) ==
    IF n = 0 THEN 0 ELSE FlagSum(flags, n - 1) + PyIntOfBool(flags[n])

\* dist.all_reduce(stop, op=SUM) can return: every member has contributed
AllReduceReady == \A q \in Members : vpc[q] \in {"all_reduce", "barrier", "returned"}

\* a barrier that waits for one peer more than the group has
BarrierWaitsForExtraPeer ==
    Cardinality({q \in Members : vpc[q] \in {"barrier", "returned"}}) = group_size + 1

\* dist.barrier() can return: every member has arrived
BarrierReady == \A q \in Members : vpc[q] \in {"barrier", "returned"}

\* a vote that passes as soon as one process wants to stop
ShouldStopAny(reduced, world_size) == reduced >= 1

\* should_stop = stop == self.trainer.world_size
ShouldStopOf(reduced, world_size) == reduced = world_size

\* a parked backend object: the vote does not touch it
BackendParked ==
    /\ cls = "ddp"
    /\ mode = "worker"
    /\ hydra = "none"
    /\ environ = <<>>
    /\ trainer = InitTrainer(1, 0, 1, FALSE, "none", "ddp")
    /\ Fresh

\* a process group as ddp_train leaves it: world_size processes, each with
\* trainer.world_size = world_size
VoteInit ==
    /\ BackendParked
    /\ JobIdle
    /\ \E c \in {"ddp", "ddp2"}, nn \in 1..MaxNodes, np \in 1..MaxProcs :
          /\ WorldSizeOf(c, nn, np) <= MaxWorld
          /\ group_size = WorldSizeOf(c, nn, np)
    /\ vpc = [p \in Members |-> "idle"]
    /\ should_stop \in [Members -> BOOLEAN]
    /\ stop = [p \in Members |-> 0]
    /\ ret = [p \in Members |-> FALSE]

\* line 287 and the entry into all_reduce
VoteCall(p) ==
    /\ p \in Members
    /\ vpc[p] = "idle"
    /\ stop' = [stop EXCEPT ![p] = PyIntOfBool(should_stop[p])]
    /\ vpc' = [vpc EXCEPT ![p] = "all_reduce"]
    /\ UNCHANGED <<should_stop, ret, group_size, backendVars, jobVars>>

\* the process goes on without making the call
VoteSkip(p) ==
    /\ p \in Members
    /\ vpc[p] = "idle"
    /\ vpc' = [vpc EXCEPT ![p] = "skipped"]
    /\ UNCHANGED <<should_stop, stop, ret, group_size, backendVars, jobVars>>

\* all_reduce returns with the sum in place; the process enters the barrier
AllReduceReturn(p) ==
    /\ p \in Members
    /\ vpc[p] = "all_reduce"
    /\ AllReduceReady
    /\ stop' = [stop EXCEPT ![p] = FlagSum(should_stop, group_size)]
    /\ vpc' = [vpc EXCEPT ![p] = "barrier"]
    /\ UNCHANGED <<should_stop, ret, group_size, backendVars, jobVars>>

\* the barrier returns; lines 290-291
BarrierReturn(p) ==
    /\ p \in Members
    /\ vpc[p] = "barrier"
    /\ BarrierReady
    /\ ret' = [ret EXCEPT ![p] = ShouldStopOf(stop[p], group_size)]
    /\ vpc' = [vpc EXCEPT ![p] = "returned"]
    /\ UNCHANGED <<should_stop, stop, group_size, backendVars, jobVars>>

VoteNext ==
    \E p \in 1..MaxWorld :
       \/ VoteCall(p)
       \/ VoteSkip(p)
       \/ AllReduceReturn(p)
       \/ BarrierReturn(p)

\* the transport releases a collective that every member has entered
VoteFairness ==
    \A p \in 1..MaxWorld :
       WF_vars(AllReduceReturn(p)) /\ WF_vars(BarrierReturn(p))

SpecVote == VoteInit /\ [][VoteNext]_vars /\ VoteFairness

\* ==================================================================== job
\* One job: job.num_nodes nodes and, on every node, the processes the launch
\* mode puts there, each with a backend and a trainer of its own. The job is
\* followed from the launch of its processes to the device binding in
\* ddp_train; what ddp_train does after that is local to the process and is
\* in Spec and SpecWorker.
MaxJobSize == 6

\* visible-device lists of a node with two or three devices
JobCudaValues ==
    { <<"1", ",", "0">>, <<"0", ",", "1", ",", "2">> }

\* DDPBackend with its three modes, DDP2Backend under a scheduler and under
\* the elastic launcher
JobKinds ==
    { [cls |-> "ddp", mode |-> "ddp", slurm |-> FALSE],
      [cls |-> "ddp", mode |-> "slurm_ddp", slurm |-> TRUE],
      [cls |-> "ddp", mode |-> "torchelastic_ddp", slurm |-> FALSE],
      [cls |-> "ddp2", mode |-> "ddp2", slurm |-> TRUE],
      [cls |-> "ddp2", mode |-> "ddp2", slurm |-> FALSE] }

\* the processes of the job: one per device and node under DDPBackend, one
\* per node under DDP2Backend (its group has num_nodes members)
Pids ==
    IF job = <<>> THEN {}
    ELSE (0..(job.num_nodes - 1))
            \X (IF job.cls = "ddp" THEN 0..(job.num_processes - 1) ELSE {0})

\* the variable a launcher-started task reads its index from
LocalIdName(slurm) == IF slurm THEN "SLURM_LOCALID" ELSE "LOCAL_RANK"

\* a process as its launch leaves it, __init__ included
NewWorker(st, m, env) ==
    [st |-> st, mode |-> m, environ |-> env,
     task_idx |-> NoIdx, has_spawned_children |-> FALSE, loop |-> 0,
     is_master |-> FALSE,
     local_rank |-> 0, global_rank |-> 0, world_size |-> 1,
     progress_bar |-> "enabled", root_gpu |-> NoIdx,
     join_args |-> NoFrame.join_args,
     steps |-> <<>>, err |-> "none"]

\* a child of the script-mode master finds LOCAL_RANK, NODE_RANK and
\* WORLD_SIZE in its environment and sets itself up as an elastic task
ChildMode == "torchelastic_ddp"

\* job.environ is the environment every process is started in, the index
\* variable of a launcher-started task apart; job.exports is what lines
\* 78-115 of script-mode setup make of it on a master, the same on every node.
JobInit ==
    /\ BackendParked
    /\ VoteIdle
    /\ \E k \in JobKinds, nn \in 1..MaxNodes, np \in 1..MaxProcs,
          on_gpu \in BOOLEAN, port \in FreePorts,
          env \in EnvsOf([CUDA_VISIBLE_DEVICES |-> JobCudaValues]) :
          /\ nn * np <= MaxJobSize
          /\ job = [cls |-> k.cls, mode |-> k.mode, slurm |-> k.slurm,
                    num_nodes |-> nn, num_processes |-> np,
                    on_gpu |-> on_gpu, environ |-> env,
                    exports |-> ScriptModeEnv(env, port, nn)]
          /\ workers =
                [p \in (0..(nn - 1)) \X (IF k.cls = "ddp" THEN 0..(np - 1) ELSE {0}) |->
                   IF k.mode = "ddp"
                   THEN IF p[2] = 0 THEN NewWorker("script", "ddp", env)
                                    ELSE NewWorker("absent", ChildMode, <<>>)
                   ELSE NewWorker("started", k.mode,
                                  EnvSet(env, LocalIdName(k.slurm), PyStr(p[2])))]

Step(name, i) == <<name, i>>

\* __ddp_script_mode_setup on the master of node n, up to the launch loop
JobScriptSetupBegin(n) ==
    LET p == <<n, 0>>
        w == workers[p]
    IN  /\ p \in Pids
        /\ w.st = "script"
        /\ IF AssertionFails(w.global_rank)
           THEN workers' = [workers EXCEPT ![p].st = "failed",
                                           ![p].err = "AssertionError"]
           ELSE IF CheckCanSpawnChildrenRaises(w.has_spawned_children)
           THEN workers' = [workers EXCEPT ![p].st = "failed",
                                           ![p].err = "RuntimeError"]
           ELSE workers' = [workers EXCEPT
                    ![p].has_spawned_children = TRUE,
                    ![p].environ = job.exports,
                    ![p].loop = 1,
                    ![p].st = "spawning"]
        /\ UNCHANGED <<job, backendVars, voteVars>>

\* lines 118-129: one child is launched
JobPopen(n) ==
    LET p == <<n, 0>>
        w == workers[p]
    IN  /\ p \in Pids
        /\ w.st = "spawning"
        /\ w.loop < job.num_processes
        /\ workers' = [workers EXCEPT
              ![<<n, w.loop>>] =
                  NewWorker("started", ChildMode, ChildEnv(w.environ, w.loop)),
              ![p].steps = Append(@, Step("Popen", w.loop)),
              ![p].st = "sleeping"]
        /\ UNCHANGED <<job, backendVars, voteVars>>

\* lines 133-134: the delay after a launch, and the next turn of the loop
JobSleep(n) ==
    LET p == <<n, 0>>
        w == workers[p]
    IN  /\ p \in Pids
        /\ w.st = "sleeping"
        /\ workers' = [workers EXCEPT
              ![p].steps = Append(@, Step("sleep", w.loop)),
              ![p].loop = w.loop + 1,
              ![p].st = "spawning"]
        /\ UNCHANGED <<job, backendVars, voteVars>>

\* line 136: the loop is over, self.task_idx = 0
JobScriptSetupEnd(n) ==
    LET p == <<n, 0>>
        w == workers[p]
    IN  /\ p \in Pids
        /\ w.st = "spawning"
        /\ w.loop >= job.num_processes
        /\ workers' = [workers EXCEPT
              ![p].task_idx = 0,
              ![p].steps = Append(@, Step("task_idx", 0)),
              ![p].st = "ready"]
        /\ UNCHANGED <<job, backendVars, voteVars>>

\* setup() of a launcher-started task or of a launched child
JobTaskSetup(p) ==
    /\ p \in Pids
    /\ workers[p].st = "started"
    /\ LET w == workers[p]
           name == IF job.cls = "ddp"
                   THEN LocalIdName(w.mode = "slurm_ddp")
                   ELSE LocalIdName(job.slurm)
       IN  IF name \in DOMAIN w.environ /\ IsNumeric(w.environ[name])
           THEN workers' = [workers EXCEPT
                   ![p].task_idx = PyInt(w.environ[name]),
                   ![p].st = "ready"]
           ELSE workers' = [workers EXCEPT
                   ![p].st = "failed",
                   ![p].err = IF job.cls = "ddp2" /\ ~job.slurm
                              THEN "MisconfigurationException"
                              ELSE IF name \in DOMAIN w.environ
                              THEN "ValueError" ELSE "KeyError"]
    /\ UNCHANGED <<job, backendVars, voteVars>>

\* train() and ddp_train up to the call of init_ddp_connection
JobTrainEnter(p) ==
    /\ p \in Pids
    /\ workers[p].st = "ready"
    /\ LET w == workers[p]
           node_rank == p[1]
           process_idx == w.task_idx
           lr == LocalRankOf(job.cls, node_rank, process_idx)
           gr == GlobalRankOf(job.cls, node_rank, job.num_processes, process_idx)
           ws == WorldSizeOf(job.cls, job.num_nodes, job.num_processes)
       IN  workers' = [workers EXCEPT
              ![p].is_master = (job.cls = "ddp" /\ w.mode = "ddp"),
              ![p].progress_bar = ProgressBarAfter(@, node_rank, process_idx),
              ![p].local_rank = lr,
              ![p].global_rank = gr,
              ![p].world_size = ws,
              ![p].join_args = JoinArgs(gr, ws, job.slurm),
              ![p].steps = Append(@, Step("init_ddp_connection", 0)),
              ![p].st = "joining"]
    /\ UNCHANGED <<job, backendVars, voteVars>>

\* the processes that have called init_ddp_connection
Callers ==
    {q \in Pids : \E i \in 1..Len(workers[q].steps) :
                     workers[q].steps[i] = Step("init_ddp_connection", 0)}

\* a rendezvous that waits for one peer more than the group has
JoinWaitsForExtraPeer(world_size) == Cardinality(Callers) > world_size

\* init_ddp_connection returns once world_size processes have called it
JoinReady(world_size) == Cardinality(Callers) >= world_size

JobJoinReturn(p) ==
    /\ p \in Pids
    /\ workers[p].st = "joining"
    /\ JoinReady(workers[p].join_args.world_size)
    /\ workers' = [workers EXCEPT ![p].st = "joined"]
    /\ UNCHANGED <<job, backendVars, voteVars>>

\* lines 202-215: the device binding
JobPlace(p) ==
    /\ p \in Pids
    /\ workers[p].st = "joined"
    /\ LET w == workers[p]
           lookup == IF job.on_gpu /\ w.is_master
                     THEN MasterLookupError(w.environ, w.local_rank) ELSE "none"
       IN  IF lookup # "none"
           THEN workers' = [workers EXCEPT ![p].st = "failed", ![p].err = lookup]
           ELSE workers' = [workers EXCEPT
                   ![p].root_gpu = IF job.on_gpu
                                   THEN GpuIdx(w.environ, w.task_idx, w.is_master,
                                               w.local_rank)
                                   ELSE @,
                   ![p].st = "placed"]
    /\ UNCHANGED <<job, backendVars, voteVars>>

JobNext ==
    \/ \E n \in 0..(MaxNodes - 1) :
          \/ JobScriptSetupBegin(n)
          \/ JobPopen(n)
          \/ JobSleep(n)
          \/ JobScriptSetupEnd(n)
    \/ \E p \in (0..(MaxNodes - 1)) \X (0..(MaxProcs - 1)) :
          \/ JobTaskSetup(p)
          \/ JobTrainEnter(p)
          \/ JobJoinReturn(p)
          \/ JobPlace(p)

\* every process of the job is a running operating-system process and the
\* transport releases a join that is complete: while some process has a step
\* to take, the job does not stand still
JobFairness == WF_vars(JobNext)

SpecJob == JobInit /\ [][JobNext]_vars /\ JobFairness

\* ================================================================== claims

\* C1: once ddp_train has assigned the ranks, a DDPBackend worker has
\* global_rank = node_rank * processes_per_node + local_rank and
\* world_size = num_nodes * processes_per_node, with local_rank the index
\* the worker was called with; a DDP2Backend worker has
\* global_rank = node_rank and world_size = num_nodes.
C1_RankFormula ==
    frame.joined =>
       /\ cls = "ddp" =>
             /\ trainer.local_rank = frame.process_idx
             /\ trainer.global_rank =
                   trainer.node_rank * trainer.num_processes + trainer.local_rank
             /\ trainer.world_size = trainer.num_nodes * trainer.num_processes
       /\ cls = "ddp2" =>
             /\ trainer.global_rank = trainer.node_rank
             /\ trainer.world_size = trainer.num_nodes

C1_Witness ==
    /\ frame.joined
    /\ cls = "ddp"
    /\ trainer.node_rank = 1
    /\ frame.process_idx = 1
    /\ trainer.global_rank = trainer.num_processes + 1

\* C2: a process that has returned from the vote holds TRUE exactly when
\* every member's should_stop flag is set, and any two processes that have
\* returned hold the same value.
C2_UnanimousVote ==
    \A p \in Members :
       vpc[p] = "returned" =>
          /\ ret[p] = (\A q \in Members : should_stop[q])
          /\ \A q \in Members : vpc[q] = "returned" => ret[q] = ret[p]

C2_Witness ==
    /\ group_size >= 2
    /\ \A p \in Members : vpc[p] = "returned" /\ ~ret[p]
    /\ \E p, q \in Members : should_stop[p] /\ ~should_stop[q]

\* C3: once every member has made the call, every call eventually returns;
\* while some member has skipped the call, no call of another member has
\* returned.
AllCalled == \A p \in Members : vpc[p] \in {"all_reduce", "barrier", "returned"}
AllReturned == \A p \in Members : vpc[p] = "returned"
SomeSkipped == \E p \in Members : vpc[p] = "skipped"

C3_Collective ==
    /\ AllCalled ~> AllReturned
    /\ [](SomeSkipped => \A q \in Members : vpc[q] # "returned")

C3_Witness ==
    /\ group_size >= 2
    /\ SomeSkipped
    /\ \E q \in Members : vpc[q] = "all_reduce"

\* C4: when script-mode setup returns on a master with N processes per
\* node, N-1 processes have been launched and N-1 handles recorded; child i
\* has the master's environment with LOCAL_RANK = i, the overrides are
\* pairwise distinct and none is 0, and every child runs the same command.
C4_AtSetupReturn ==
    LET procs == trainer.interactive_ddp_procs
        n == trainer.num_processes
    IN  /\ Len(procs) = n - 1
        /\ popen_count = n - 1
        /\ \A i \in 1..(n - 1) :
              /\ DOMAIN procs[i].env = DOMAIN environ
              /\ \A k \in DOMAIN environ :
                    procs[i].env[k] =
                       IF k = "LOCAL_RANK" THEN PyStr(i) ELSE environ[k]
              /\ PyInt(procs[i].env["LOCAL_RANK"]) # 0
              /\ procs[i].command = Command(argv)
        /\ \A i, j \in 1..(n - 1) :
              /\ procs[i].command = procs[j].command
              /\ i # j => procs[i].env["LOCAL_RANK"] # procs[j].env["LOCAL_RANK"]

C4_SpawnedChildren ==
    [][(pc = "spawn" /\ pc' = "idle") => C4_AtSetupReturn']_vars

C4_Witness ==
    /\ pc = "idle"
    /\ has_spawned_children
    /\ task_idx = 0
    /\ calls = 1
    /\ trainer.num_processes = 3
    /\ Len(trainer.interactive_ddp_procs) = 2

\* C5: a call of script-mode setup on a backend that has already spawned
\* its children raises the re-entrant spawn error (RuntimeError), launches
\* no process and leaves the recorded child handles unchanged, whatever
\* calls were made in between.
SecondScriptSetupCall ==
    /\ cls = "ddp" /\ mode = "ddp"
    /\ has_spawned_children
    /\ pc = "idle"
    /\ calls' = calls + 1
    /\ last_call' = "setup"

C5_ReentrantSpawn ==
    [][SecondScriptSetupCall =>
          /\ err' = "RuntimeError"
          /\ popen_count' = popen_count
          /\ trainer'.interactive_ddp_procs = trainer.interactive_ddp_procs]_vars

\* C6: a worker of the spawn family that was handed a channel, has reached
\* the fit-end transfer at the end of training and has left ddp_train has
\* put, as global rank 0, exactly the three messages best path, results,
\* last-weights path in this order, and, as any other rank, nothing.
InSpawnFamily == PyLower(trainer.distributed_backend) \in SpawnFamily

TransferCalled ==
    \E i \in DOMAIN steps : steps[i] = "transfer_distrib_spawn_state_on_fit_end"

C6_Envelope ==
    (pc = "exited" /\ TransferCalled /\ InSpawnFamily /\ frame.has_queue) =>
       IF trainer.global_rank = 0
       THEN mp_queue = <<frame.best_model_path, Results, frame.last_path>>
       ELSE mp_queue = <<>>

\* C7: when the third message is on the channel, it is a path only if the
\* run is not evaluation-only and the best path exists, and then the file
\* at that path has been written; in evaluation-only mode the third message
\* is none and no file is written.
BestPathExists == frame.best_model_path # NoneStr /\ Len(frame.best_model_path) > 0

C7_LastWeights ==
    /\ Len(mp_queue) = 3 =>
          /\ mp_queue[3] # NoneStr <=> (~frame.testing /\ BestPathExists)
          /\ mp_queue[3] # NoneStr => mp_queue[3] \in files
    /\ frame.testing => files = {}
    /\ files # {} => ~frame.testing /\ BestPathExists

C7_Witness ==
    /\ Len(mp_queue) = 3
    /\ mp_queue[3] # NoneStr
    /\ mp_queue[3] \in files
    /\ trainer.global_rank = 0

\* C8: for a distributed_backend outside ddp_spawn, ddp_cpu and tpu the
\* fit-end transfer changes nothing: whatever the rank and whether or not
\* a channel was supplied, the channel, the files and the trainer are as
\* they were and the call returns.
C8_TransferNoOp ==
    [][(pc = "fitted" /\ ~InSpawnFamily) =>
          /\ mp_queue' = mp_queue
          /\ files' = files
          /\ trainer' = trainer
          /\ frame' = frame
          /\ pc' = "transferred"]_vars

C8_Witness ==
    /\ pc = "transferred"
    /\ trainer.distributed_backend = "ddp"
    /\ trainer.global_rank = 0
    /\ frame.has_queue
    /\ mp_queue = <<>>

\* C9: a process that has bound a device has bound, as a master, the device
\* named at position local_rank of the visible-device list and, as a
\* non-master, the device whose index is its local rank; local_rank is the
\* index of the process on its node.
VisibleDevices == PySplit(EnvGet(environ, "CUDA_VISIBLE_DEVICES", <<>>))

DeviceAtLocalRank(local_rank) ==
    IF local_rank + 1 <= Len(VisibleDevices) /\ IsNumeric(VisibleDevices[local_rank + 1])
    THEN PyInt(VisibleDevices[local_rank + 1])
    ELSE NoIdx

C9_DeviceBinding ==
    (frame.on_gpu /\ pc \in {"placed", "configured", "fitted", "transferred"}) =>
       trainer.root_gpu =
          IF frame.is_master
          THEN DeviceAtLocalRank(frame.process_idx)
          ELSE frame.process_idx

\* C10: the WORLD_SIZE script-mode setup exports is the number of devices
\* CUDA_VISIBLE_DEVICES names, at least 1, times the number of nodes.
NamedDevices ==
    Cardinality({i \in 1..Len(VisibleDevices) : Len(VisibleDevices[i]) > 0})

C10_WorldSizeExport ==
    (has_spawned_children /\ "WORLD_SIZE" \in DOMAIN environ) =>
       environ["WORLD_SIZE"] = PyStr(PyMax(1, NamedDevices) * trainer.num_nodes)

\* C11: a call of script-mode setup that gets past its two checks exports
\* as NODE_RANK the NODE_RANK it found in the environment if there was one,
\* else the GROUP_RANK it found if there was one, else "0", and exports
\* LOCAL_RANK "0".
ScriptSetupExports ==
    /\ cls = "ddp" /\ mode = "ddp"
    /\ pc = "idle" /\ pc' = "spawn"

C11_NodeRankPrecedence ==
    [][ScriptSetupExports =>
          /\ environ'["NODE_RANK"] =
                EnvGet(environ, "NODE_RANK", EnvGet(environ, "GROUP_RANK", <<"0">>))
          /\ environ'["LOCAL_RANK"] = <<"0">>]_vars

\* C12: while a run of ddp_train is past its join, the join is the first
\* step of the run and occurs once in it, so that every hook, device
\* binding and model placement of the run comes after it and nothing comes
\* before it; and the join was called with the global rank, the world size
\* and the cluster-managed flag the trainer holds for the rest of the run.
JoinCalls == {i \in 1..Len(steps) : steps[i] = "init_ddp_connection"}

C12_JoinOnce ==
    frame.joined =>
       /\ JoinCalls = {1}
       /\ frame.join_args.rank = trainer.global_rank
       /\ frame.join_args.world_size = trainer.world_size
       /\ frame.join_args.slurm = trainer.is_slurm_managing_tasks
       /\ trainer.local_rank = LocalRankOf(cls, trainer.node_rank, frame.process_idx)

C12_Witness ==
    /\ frame.joined
    /\ pc = "cleaned"
    /\ frame.on_gpu
    /\ trainer.is_slurm_managing_tasks
    /\ trainer.global_rank = 3

\* C13: a last-weights path made from a best checkpoint path that ends in
\* ".ckpt" is that path with its last five characters, the extension,
\* replaced by ".tmp_end.ckpt" and every character before them kept.
Extension == <<".", "c", "k", "p", "t">>

EndsInCkpt(path) ==
    /\ Len(path) >= Len(Extension)
    /\ SubSeq(path, Len(path) - Len(Extension) + 1, Len(path)) = Extension

C13_ExtensionOnly ==
    (/\ frame.last_path # NoneStr
     /\ EndsInCkpt(frame.best_model_path)) =>
       frame.last_path =
          SubSeq(frame.best_model_path, 1,
                 Len(frame.best_model_path) - Len(Extension)) \o TmpEndCkpt

\* C14: in the steps of a run of ddp_train, the batch-norm wrapping comes
\* before the device binding, the device binding and the model placement
\* before the optimizers, the optimizers before the apex wrapping, the apex
\* wrapping before configure_ddp, configure_ddp before the train or test
\* loop, the loop before the fit-end transfer and the transfer before the
\* cache release; and a run that has released the cache has done each of
\* the unconditional ones once.
At(a) == {i \in 1..Len(steps) : steps[i] = a}

Before(a, b) == \A i \in At(a), j \in At(b) : i < j

Once(a) == Cardinality(At(a)) = 1

C14_StepOrder ==
    /\ Before("configure_sync_batchnorm", "set_device")
    /\ Before("set_device", "model.cuda")
    /\ Before("model.cuda", "init_optimizers")
    /\ Before("init_optimizers", "configure_apex")
    /\ Before("configure_apex", "configure_ddp")
    /\ Before("init_optimizers", "configure_ddp")
    /\ Before("configure_ddp", "train_or_test")
    /\ Before("train_or_test", "transfer_distrib_spawn_state_on_fit_end")
    /\ Before("transfer_distrib_spawn_state_on_fit_end", "empty_cache")
    /\ pc \in {"cleaned", "exited"} /\ err = "none" =>
          /\ Once("init_optimizers")
          /\ Once("configure_ddp")
          /\ Once("train_or_test")
          /\ Once("transfer_distrib_spawn_state_on_fit_end")
          /\ Once("empty_cache")
          /\ frame.on_gpu => Once("set_device") /\ Once("model.cuda")

C14_Witness ==
    /\ pc = "cleaned"
    /\ cls = "ddp"
    /\ Once("configure_sync_batchnorm")
    /\ Once("set_device")
    /\ Once("configure_apex")
    /\ Len(mp_queue) = 3

\* C15: a call of script-mode setup on a process whose global rank is not 0
\* raises AssertionError and changes nothing else: no process is launched,
\* the environment, the command line, the task index and the recorded
\* children are as before, and the spawn guard is as before, so that an
\* unset guard stays unset; and no step resets a guard that is set.
ScriptSetupCallOffMaster ==
    /\ cls = "ddp" /\ mode = "ddp"
    /\ pc = "idle"
    /\ calls' = calls + 1
    /\ last_call' = "setup"
    /\ trainer.global_rank # 0

C15_MasterOnly ==
    [][/\ ScriptSetupCallOffMaster =>
             /\ err' = "AssertionError"
             /\ pc' = "idle"
             /\ popen_count' = popen_count
             /\ environ' = environ
             /\ argv' = argv
             /\ task_idx' = task_idx
             /\ trainer' = trainer
             /\ has_spawned_children' = has_spawned_children
       /\ has_spawned_children => has_spawned_children']_vars

C15_Witness ==
    /\ cls = "ddp" /\ mode = "ddp"
    /\ last_call = "setup"
    /\ err = "AssertionError"
    /\ ~has_spawned_children
    /\ popen_count = 0
    /\ "WORLD_SIZE" \notin DOMAIN environ

\* C20: while the script-mode master is in ddp_train with the WORLD_SIZE
\* that setup exported still in its environment, that value is the world
\* size the master passed to the join (num_nodes * num_processes).
C20_WorldSizeAgrees ==
    (/\ cls = "ddp" /\ mode = "ddp"
     /\ frame.joined
     /\ "WORLD_SIZE" \in DOMAIN environ) =>
       /\ frame.join_args.world_size = trainer.num_nodes * trainer.num_processes
       /\ PyInt(environ["WORLD_SIZE"]) = frame.join_args.world_size

\* C16: among the processes of a job that have entered ddp_train, progress
\* reporting is still enabled on at most one, and only on the process of
\* node rank 0 whose index on its node is 0; every other one has it disabled.
Reporting == {p \in Callers : workers[p].progress_bar = "enabled"}

C16_SingleReporter ==
    /\ Cardinality(Reporting) <= 1
    /\ \A p \in Callers :
          IF p[1] = 0 /\ workers[p].task_idx = 0
          THEN workers[p].progress_bar = "enabled"
          ELSE workers[p].progress_bar = "disabled"

C16_Witness ==
    /\ job.cls = "ddp" /\ job.mode = "ddp"
    /\ job.num_nodes = 2 /\ job.num_processes = 3
    /\ Callers = Pids
    /\ Reporting = {<<0, 0>>}

\* C17: in a script-mode job the master of every node launches child 1
\* first and child k+1 only right after the delay that follows the launch
\* of child k, sets its task index only when all num_processes - 1 children
\* are launched and delayed, and calls the join only after that; and once
\* the job is started, all world_size processes eventually return from the
\* join.
ScriptJob == job.cls = "ddp" /\ job.mode = "ddp"

LaunchOrder(n) ==
    LET s == workers[<<n, 0>>].steps
        children == job.num_processes - 1
    IN  /\ \A i \in 1..Len(s) :
              /\ s[i][1] = "Popen" =>
                    IF i = 1 THEN s[i] = Step("Popen", 1)
                    ELSE /\ s[i - 1][1] = "sleep"
                         /\ s[i][2] = s[i - 1][2] + 1
              /\ s[i][1] = "sleep" => i > 1 /\ s[i - 1] = Step("Popen", s[i][2])
              /\ s[i][1] = "task_idx" =>
                    /\ i = 2 * children + 1
                    /\ children > 0 => s[i - 1] = Step("sleep", children)
              /\ s[i][1] = "init_ddp_connection" =>
                    /\ i > 1 /\ s[i - 1][1] = "task_idx"
                    /\ \A k \in 1..children : workers[<<n, k>>].st # "absent"
        /\ \A k \in 1..children :
              workers[<<n, k>>].st # "absent" <=>
                 \E i \in 1..Len(s) : s[i] = Step("Popen", k)

RendezvousComplete ==
    /\ Cardinality(Callers) = job.num_nodes * job.num_processes
    /\ \A p \in Pids : workers[p].st \in {"joined", "placed", "failed"}

C17_LaunchThenJoin ==
    /\ [](ScriptJob => \A n \in 0..(job.num_nodes - 1) : LaunchOrder(n))
    /\ (ScriptJob ~> RendezvousComplete)

C17_Witness ==
    /\ ScriptJob
    /\ job.num_nodes = 2 /\ job.num_processes = 3
    /\ RendezvousComplete
    /\ \A n \in 0..1 : Len(workers[<<n, 0>>].steps) = 6

\* C18: any two processes of a job that have been assigned their ranks by
\* ddp_train hold different global ranks, and each holds a global rank from
\* 0 to world_size - 1, under DDPBackend and under DDP2Backend.
C18_DistinctRanks ==
    \A p \in Callers :
       /\ workers[p].global_rank \in 0..(workers[p].world_size - 1)
       /\ \A q \in Callers :
             workers[p].global_rank = workers[q].global_rank => p = q

C18_Witness ==
    /\ job.cls = "ddp"
    /\ job.num_nodes = 2 /\ job.num_processes = 3
    /\ Callers = Pids
    /\ {workers[p].global_rank : p \in Pids} = 0..5

\* C19: in a script-mode job on accelerators, any two processes of one node
\* that have bound a device, the master and a child or two children, have
\* bound different device indices.
Bound == {p \in Pids : workers[p].st = "placed" /\ job.on_gpu}

C19_DistinctDevices ==
    ScriptJob =>
       \A p \in Bound, q \in Bound :
          (p[1] = q[1] /\ workers[p].root_gpu = workers[q].root_gpu) => p = q

\* C21: when a worker has left ddp_train, by returning or by an exception,
\* persisting the last weights included, the channel holds none of the
\* envelope messages or all three of them.
C21_AllOrNothing ==
    pc = "exited" => Len(mp_queue) \in {0, Len(<<"best", "results", "last">>)}

====
